---- MODULE Spec2Model ----
(***************************************************************************)
(* Model of the weather ETL pipeline of flows/weather_etl.py: the flow     *)
(* weather_etl_flow, process_city and the seven tasks it sequences, the    *)
(* object store, the two ClickHouse tables and the Telegram dispatcher.    *)
(* Several flow runs (the deployment of flows/deploy.py starts one every   *)
(* minute, and __main__ starts one by hand) share the clock and the        *)
(* external stores; everything else is local to a run.                     *)
(***************************************************************************)
EXTENDS Integers, Sequences, FiniteSets, TLC

VARIABLES
    now,            \* the host clock read by datetime.now(), in seconds
    bot_token,      \* os.getenv('TELEGRAM_BOT_TOKEN')
    buckets,        \* MinIO: the buckets that exist
    minio,          \* MinIO bucket weather-raw: object key -> payload
    put_count,      \* number of put_object calls that succeeded
    weather_hourly, \* ClickHouse table weather_hourly: rows in insert order
    weather_daily,  \* ClickHouse table weather_daily: rows in insert order
    telegram_sent,  \* sendMessage requests that were delivered (status 200)
    pc,             \* per run: position in weather_etl_flow / process_city
    idx,            \* per run: index of the city of the loop at line 305
    success_count,  \* per run: weather_etl_flow's success_count
    summary,        \* per run: the line printed at line 309, or None
    run_date,       \* per run: date on which the flow run started
    calls,          \* per run: city -> number of process_city invocations
    outcome,        \* per run: city -> "none", "ok" or the step that raised
    trace,          \* per run: the steps started for the current city
    attempts,       \* per run: requests issued by fetch_weather_data
    raw_data,       \* per run: process_city's raw_data
    hourly_data,    \* per run: process_city's hourly_data
    daily_data,     \* per run: process_city's daily_data
    tomorrow_d,     \* per run: transform_daily_data's local `tomorrow`
    notif           \* per run: locals of send_telegram_notifications

vars == <<now, bot_token, buckets, minio, put_count, weather_hourly,
          weather_daily, telegram_sent, pc, idx, success_count, summary,
          run_date, calls, outcome, trace, attempts, raw_data, hourly_data,
          daily_data, tomorrow_d, notif>>

-----------------------------------------------------------------------------
(* Bounds of the model *)

NumRuns == 2          \* flow runs that may overlap
MaxTicks == 1         \* seconds the clock may advance
SecondsPerDay == 2    \* length of a day on the model's clock
DaysPerMonth == 2     \* length of a month in the model's calendar
HoursPerDay == 2      \* hourly entries per day in a forecast
MaxUpdates == 2       \* updates returned by getUpdates
MaxLen == 3           \* length of a free hourly time series

(* Program constants *)

Retries == 3          \* @task(retries=3)
ForecastDays == 2     \* "forecast_days": 2

(* Python's None, and a value that is present: a sequence of length 0 or 1 *)
None == <<>>
Some(x) == <<x>>

CITIES == <<"Moscow", "Samara">>
CityNames == {CITIES[i] : i \in 1..Len(CITIES)}
RunIds == 1..NumRuns

StepOrder == <<"fetch", "archive", "transform_hourly", "transform_daily",
               "load_hourly", "load_daily", "notify">>

-----------------------------------------------------------------------------
(* Dates and their string forms.  A date is a day ordinal; strftime and    *)
(* isoformat strings are tuples of calendar fields.                        *)

DateOf(t) == t \div SecondsPerDay

StrfDate(d) == <<(d \div DaysPerMonth) + 1, (d % DaysPerMonth) + 1>>

StrpDate(s) == (s[1] - 1) * DaysPerMonth + (s[2] - 1)

IsoFormat(d, h) == <<StrfDate(d)[1], StrfDate(d)[2], h>>

FromIsoFormat(s) == [date |-> StrpDate(<<s[1], s[2]>>), hour |-> s[3]]

StrfSeconds(t) == <<StrfDate(DateOf(t))[1], StrfDate(DateOf(t))[2], t % SecondsPerDay>>

(* Tomorrow without the timedelta *)
TomorrowIsToday(t) == DateOf(t)

Tomorrow(t) == DateOf(t) + 1

-----------------------------------------------------------------------------
(* The forecast API.  A response holds ForecastDays days starting at the   *)
(* API's own "today" (timezone Europe/Moscow, which need not be the host's *)
(* date), HoursPerDay hourly entries per day, parallel value arrays.       *)

HourlyTimes(first) ==
    [i \in 1..(ForecastDays * HoursPerDay) |->
        IsoFormat(first + ((i - 1) \div HoursPerDay), (i - 1) % HoursPerDay)]

(* the "hourly" object: the time array and one value array per field *)
HourlySeries(times) ==
    [time               |-> times,
     temperature_2m     |-> [i \in 1..Len(times) |-> 100 + i],
     precipitation      |-> [i \in 1..Len(times) |-> 200 + i],
     wind_speed_10m     |-> [i \in 1..Len(times) |-> 300 + i],
     wind_direction_10m |-> [i \in 1..Len(times) |-> 400 + i]]

(* the "daily" object *)
DailySeries(first) ==
    [time               |-> [i \in 1..ForecastDays |-> StrfDate(first + i - 1)],
     temperature_2m_max |-> [i \in 1..ForecastDays |-> 70 + (3 * i)],
     temperature_2m_min |-> [i \in 1..ForecastDays |-> 10 + (2 * i)],
     precipitation_sum  |-> [i \in 1..ForecastDays |-> 500 + i]]

ApiResponse(first) ==
    [hourly |-> HourlySeries(HourlyTimes(first)), daily |-> DailySeries(first)]

(* data.update({'city': city, 'fetched_at': datetime.now().isoformat()}) *)
FetchResult(response, city, t) ==
    [hourly |-> response.hourly, daily |-> response.daily,
     city |-> city, fetched_at |-> t]

-----------------------------------------------------------------------------
(* save_raw_data_to_minio: the object key and put_object *)

ObjectKey(city, t) == <<city, StrfSeconds(t)>>

PutObject(store, key, data) ==
    [k \in (DOMAIN store) \cup {key} |-> IF k = key THEN data ELSE store[k]]

-----------------------------------------------------------------------------
(* transform_hourly_data: the list comprehension of lines 134-146 *)

HourlyRecord(data, i) ==
    [city           |-> data.city,
     date           |-> FromIsoFormat(data.hourly.time[i]).date,
     hour           |-> FromIsoFormat(data.hourly.time[i]),
     temperature    |-> data.hourly.temperature_2m[i],
     precipitation  |-> data.hourly.precipitation[i],
     wind_speed     |-> data.hourly.wind_speed_10m[i],
     wind_direction |-> data.hourly.wind_direction_10m[i]]

RECURSIVE HourlyFrom(_, _, _)
HourlyFrom(data, tomorrow, i) ==
    IF i > Len(data.hourly.time) THEN <<>>
    ELSE (IF FromIsoFormat(data.hourly.time[i]).date = tomorrow
          THEN <<HourlyRecord(data, i)>> ELSE <<>>)
         \o HourlyFrom(data, tomorrow, i + 1)

transform_hourly_data(data, t) == HourlyFrom(data, Tomorrow(t), 1)

-----------------------------------------------------------------------------
(* transform_daily_data *)

(* list.index: the first position of x, 0 standing for ValueError *)
IndexOf(seq, x) ==
    IF \E i \in 1..Len(seq) : seq[i] = x
    THEN CHOOSE i \in 1..Len(seq) :
            seq[i] = x /\ \A j \in 1..(i - 1) : seq[j] # x
    ELSE 0

(* round((temp_min + temp_max) / 2, 1) on values held in tenths: halves    *)
(* round to the even neighbour                                             *)
TempAvg(temp_min, temp_max) ==
    LET s == temp_min + temp_max
        q == s \div 2
    IN  IF s % 2 = 0 THEN q ELSE IF q % 2 = 0 THEN q ELSE q + 1

(* DailySummary with a placeholder summary in place of the raise *)
DailySummaryPlaceholder(data, tomorrow) ==
    LET daily == data.daily
        i     == IndexOf(daily.time, tomorrow)
    IN  Some([city                |-> data.city,
              date                |-> StrpDate(tomorrow),
              temp_min            |-> IF i = 0 THEN 0 ELSE daily.temperature_2m_min[i],
              temp_max            |-> IF i = 0 THEN 0 ELSE daily.temperature_2m_max[i],
              temp_avg            |-> IF i = 0 THEN 0
                                      ELSE TempAvg(daily.temperature_2m_min[i],
                                                   daily.temperature_2m_max[i]),
              precipitation_total |-> IF i = 0 THEN 0 ELSE daily.precipitation_sum[i],
              wind_max            |-> 0])

(* the body of the try block, lines 161-177; None stands for the raise of  *)
(* line 181 (ValueError from index, IndexError from a short value array)   *)
DailySummary(data, tomorrow) ==
    LET daily == data.daily
        i     == IndexOf(daily.time, tomorrow)
    IN  IF i = 0 \/ i > Len(daily.temperature_2m_min)
              \/ i > Len(daily.temperature_2m_max)
              \/ i > Len(daily.precipitation_sum)
        THEN None
        ELSE Some(
             [city                |-> data.city,
              date                |-> StrpDate(tomorrow),
              temp_min            |-> daily.temperature_2m_min[i],
              temp_max            |-> daily.temperature_2m_max[i],
              temp_avg            |-> TempAvg(daily.temperature_2m_min[i],
                                              daily.temperature_2m_max[i]),
              precipitation_total |-> daily.precipitation_sum[i],
              wind_max            |-> 0])

-----------------------------------------------------------------------------
(* get_chat_ids and the send loop of send_telegram_notifications *)

Updates == {None, Some(101), Some(102)}   \* an update without / with 'message'

UpdateLists == UNION {[1..n -> Updates] : n \in 0..MaxUpdates}

GetUpdatesResponses ==
    {[kind |-> "error", ok |-> FALSE, result |-> <<>>],
     [kind |-> "json", ok |-> FALSE, result |-> <<>>]}
    \cup {[kind |-> "json", ok |-> TRUE, result |-> u] : u \in UpdateLists}

(* the set comprehension of lines 50-54; every failure yields no ids *)
get_chat_ids(response) ==
    IF response.kind = "error" THEN {}
    ELSE IF ~response.ok THEN {}
    ELSE {ToString(response.result[i][1]) :
            i \in {j \in 1..Len(response.result) : response.result[j] # None}}

(* list(chat_ids): the elements of the set in some order *)
Orderings(S) ==
    {f \in [1..Cardinality(S) -> S] :
        \A i, j \in 1..Cardinality(S) : f[i] = f[j] => i = j}

SendOutcomes == {"200", "non200", "exception"}

Message(daily) ==
    [date |-> daily.date, city |-> daily.city, temp_min |-> daily.temp_min,
     temp_max |-> daily.temp_max, temp_avg |-> daily.temp_avg,
     precipitation_total |-> daily.precipitation_total]

(* SendLoop with the first failed send ending the loop by an exception *)
RECURSIVE SendLoopStops(_, _, _, _)
SendLoopStops(chat_ids, outcomes, i, acc) ==
    IF i > Len(chat_ids) THEN acc
    ELSE IF outcomes[i] # "200"
         THEN [posted     |-> Append(acc.posted, chat_ids[i]),
               delivered  |-> acc.delivered,
               successful |-> acc.successful,
               failed     |-> acc.failed,
               raised     |-> TRUE]
         ELSE SendLoopStops(chat_ids, outcomes, i + 1,
                [posted     |-> Append(acc.posted, chat_ids[i]),
                 delivered  |-> acc.delivered \cup {chat_ids[i]},
                 successful |-> acc.successful + 1,
                 failed     |-> acc.failed,
                 raised     |-> FALSE])

(* the for loop of lines 246-262: one POST per chat id, each outcome       *)
(* counted, exceptions swallowed by the except of line 261                 *)
RECURSIVE SendLoop(_, _, _, _)
SendLoop(chat_ids, outcomes, i, acc) ==
    IF i > Len(chat_ids) THEN acc
    ELSE SendLoop(chat_ids, outcomes, i + 1,
            [posted     |-> Append(acc.posted, chat_ids[i]),
             delivered  |-> IF outcomes[i] = "200"
                            THEN acc.delivered \cup {chat_ids[i]}
                            ELSE acc.delivered,
             successful |-> IF outcomes[i] = "200"
                            THEN acc.successful + 1 ELSE acc.successful,
             failed     |-> IF outcomes[i] = "200"
                            THEN acc.failed ELSE acc.failed + 1,
             raised     |-> FALSE])

SendAll(chat_ids, outcomes) ==
    SendLoop(chat_ids, outcomes, 1,
             [posted |-> <<>>, delivered |-> {}, successful |-> 0,
              failed |-> 0, raised |-> FALSE])

(* `if not bot_token`: None and the empty string are both falsy *)
Falsy(token) == token = None \/ token = Some("")

-----------------------------------------------------------------------------
(* Initial state: nothing stored, no run started *)

StartClock == (2 * SecondsPerDay) - 1     \* the last second of day 1

BotTokens == {None, Some("123:abc")}

(* empty stores and no flow run started *)
Fresh ==
    /\ buckets = {}
    /\ minio = <<>>
    /\ put_count = 0
    /\ weather_hourly = <<>>
    /\ weather_daily = <<>>
    /\ telegram_sent = {}
    /\ pc = [r \in RunIds |-> "idle"]
    /\ idx = [r \in RunIds |-> 0]
    /\ success_count = [r \in RunIds |-> 0]
    /\ summary = [r \in RunIds |-> None]
    /\ run_date = [r \in RunIds |-> None]
    /\ calls = [r \in RunIds |-> [c \in CityNames |-> 0]]
    /\ outcome = [r \in RunIds |-> [c \in CityNames |-> "none"]]
    /\ trace = [r \in RunIds |-> <<>>]
    /\ attempts = [r \in RunIds |-> 0]
    /\ raw_data = [r \in RunIds |-> None]
    /\ hourly_data = [r \in RunIds |-> None]
    /\ daily_data = [r \in RunIds |-> None]
    /\ tomorrow_d = [r \in RunIds |-> None]
    /\ notif = [r \in RunIds |-> None]

Init ==
    /\ now = StartClock
    /\ bot_token \in BotTokens
    /\ Fresh

City(r) == CITIES[idx[r]]

stores == <<buckets, minio, put_count, weather_hourly, weather_daily, telegram_sent>>
flowvars == <<idx, success_count, summary, run_date, calls>>
locals == <<attempts, raw_data, hourly_data, daily_data, tomorrow_d, notif>>

(* the clock advances by one second *)
Tick ==
    /\ now < StartClock + MaxTicks
    /\ now' = now + 1
    /\ UNCHANGED <<bot_token, stores, pc, flowvars, outcome, trace, locals>>

(* The loop of lines 305-307 moves to city i with success_count sc: it     *)
(* calls process_city, whose locals are fresh, or leaves the loop and      *)
(* prints the summary of line 309.                                         *)
NextCity(r, i, sc) ==
    /\ idx' = [idx EXCEPT ![r] = i]
    /\ success_count' = [success_count EXCEPT ![r] = sc]
    /\ IF i <= Len(CITIES)
       THEN /\ pc' = [pc EXCEPT ![r] = "fetch"]
            /\ calls' = [calls EXCEPT ![r][CITIES[i]] = @ + 1]
            /\ summary' = summary
       ELSE /\ pc' = [pc EXCEPT ![r] = "done"]
            /\ calls' = calls
            /\ summary' = [summary EXCEPT ![r] = <<sc, Len(CITIES)>>]
    /\ trace' = [trace EXCEPT ![r] = <<>>]
    /\ attempts' = [attempts EXCEPT ![r] = 0]
    /\ raw_data' = [raw_data EXCEPT ![r] = None]
    /\ hourly_data' = [hourly_data EXCEPT ![r] = None]
    /\ daily_data' = [daily_data EXCEPT ![r] = None]
    /\ tomorrow_d' = [tomorrow_d EXCEPT ![r] = None]
    /\ notif' = [notif EXCEPT ![r] = None]

(* weather_etl_flow starts: lines 297-305 *)
StartRun(r) ==
    /\ pc[r] = "idle"
    /\ run_date' = [run_date EXCEPT ![r] = Some(DateOf(now))]
    /\ NextCity(r, 1, 0)
    /\ UNCHANGED <<now, bot_token, stores, outcome>>

(* Raise with the error swallowed: control goes on to the following step *)
RaiseIgnored(r, step) ==
    /\ pc' = [pc EXCEPT ![r] =
                IF step = "notify" THEN "return"
                ELSE StepOrder[(CHOOSE i \in 1..Len(StepOrder) : StepOrder[i] = step) + 1]]
    /\ outcome' = [outcome EXCEPT ![r][City(r)] = step]

(* A task of process_city raises: control goes to the except of line 291 *)
Raise(r, step) ==
    /\ pc' = [pc EXCEPT ![r] = "except"]
    /\ outcome' = [outcome EXCEPT ![r][City(r)] = step]

(* A task of process_city returns: control goes to the next statement *)
Proceed(r, next) ==
    /\ pc' = [pc EXCEPT ![r] = next]
    /\ outcome' = outcome

(* The last task of process_city returns: every step is done, and control  *)
(* is at the return of line 289                                            *)
Complete(r) ==
    /\ pc' = [pc EXCEPT ![r] = "return"]
    /\ outcome' = [outcome EXCEPT ![r][City(r)] = "ok"]

Started(r, step) == [trace EXCEPT ![r] = Append(@, step)]

(* the forecast API's "today" at host time t *)
ApiDays(t) == {DateOf(t) - 1, DateOf(t), DateOf(t) + 1}

(* fetch_weather_data, one attempt that succeeds (lines 80-89) *)
FetchOk(r) ==
    /\ pc[r] = "fetch"
    /\ \E first \in ApiDays(now) :
         raw_data' = [raw_data EXCEPT ![r] =
                        Some(FetchResult(ApiResponse(first), City(r), now))]
    /\ attempts' = [attempts EXCEPT ![r] = @ + 1]
    /\ trace' = IF attempts[r] = 0 THEN Started(r, "fetch") ELSE trace
    /\ Proceed(r, "archive")
    /\ UNCHANGED <<now, bot_token, stores, flowvars, hourly_data, daily_data,
                   tomorrow_d, notif>>

(* FetchFail with one retry too many *)
FetchFailOneMore(r) ==
    /\ pc[r] = "fetch"
    /\ attempts' = [attempts EXCEPT ![r] = @ + 1]
    /\ trace' = IF attempts[r] = 0 THEN Started(r, "fetch") ELSE trace
    /\ IF attempts[r] <= Retries
       THEN Proceed(r, "fetch")
       ELSE Raise(r, "fetch")
    /\ UNCHANGED <<now, bot_token, stores, flowvars, raw_data, hourly_data,
                   daily_data, tomorrow_d, notif>>

(* fetch_weather_data, one attempt that raises (lines 91-93): the task     *)
(* runner retries it while retries are left, then lets the error out       *)
FetchFail(r) ==
    /\ pc[r] = "fetch"
    /\ attempts' = [attempts EXCEPT ![r] = @ + 1]
    /\ trace' = IF attempts[r] = 0 THEN Started(r, "fetch") ELSE trace
    /\ IF attempts[r] < Retries
       THEN Proceed(r, "fetch")
       ELSE Raise(r, "fetch")
    /\ UNCHANGED <<now, bot_token, stores, flowvars, raw_data, hourly_data,
                   daily_data, tomorrow_d, notif>>

(* save_raw_data_to_minio succeeds (lines 100-119) *)
SaveRawOk(r) ==
    /\ pc[r] = "archive"
    /\ buckets' = buckets \cup {"weather-raw"}
    /\ minio' = PutObject(minio, ObjectKey(City(r), now), raw_data[r][1])
    /\ put_count' = put_count + 1
    /\ trace' = Started(r, "archive")
    /\ Proceed(r, "transform_hourly")
    /\ UNCHANGED <<now, bot_token, weather_hourly, weather_daily, telegram_sent,
                   flowvars, locals>>

(* save_raw_data_to_minio raises: in bucket_exists or make_bucket, or in   *)
(* put_object after the bucket was made                                    *)
SaveRawFail(r) ==
    /\ pc[r] = "archive"
    /\ buckets' \in {buckets, buckets \cup {"weather-raw"}}
    /\ trace' = Started(r, "archive")
    /\ Raise(r, "archive")
    /\ UNCHANGED <<now, bot_token, minio, put_count, weather_hourly,
                   weather_daily, telegram_sent, flowvars, locals>>

(* transform_hourly_data (lines 130-149) *)
TransformHourly(r) ==
    /\ pc[r] = "transform_hourly"
    /\ hourly_data' = [hourly_data EXCEPT ![r] =
                         Some(transform_hourly_data(raw_data[r][1], now))]
    /\ trace' = Started(r, "transform_hourly")
    /\ Proceed(r, "transform_daily")
    /\ UNCHANGED <<now, bot_token, stores, flowvars, attempts, raw_data,
                   daily_data, tomorrow_d, notif>>

(* transform_daily_data (lines 156-181) *)
TransformDaily(r) ==
    /\ pc[r] = "transform_daily"
    /\ LET tomorrow == StrfDate(Tomorrow(now))
           result   == DailySummary(raw_data[r][1], tomorrow)
       IN  /\ tomorrow_d' = [tomorrow_d EXCEPT ![r] = Some(tomorrow)]
           /\ daily_data' = [daily_data EXCEPT ![r] = result]
           /\ IF result = None
              THEN Raise(r, "transform_daily")
              ELSE Proceed(r, "load_hourly")
    /\ trace' = Started(r, "transform_daily")
    /\ UNCHANGED <<now, bot_token, stores, flowvars, attempts, raw_data,
                   hourly_data, notif>>

(* load_hourly_data_to_clickhouse returns (lines 188-200): nothing to do   *)
(* for an empty list, else one INSERT per record                           *)
LoadHourlyOk(r) ==
    /\ pc[r] = "load_hourly"
    /\ weather_hourly' = weather_hourly \o hourly_data[r][1]
    /\ trace' = Started(r, "load_hourly")
    /\ Proceed(r, "load_daily")
    /\ UNCHANGED <<now, bot_token, buckets, minio, put_count, weather_daily,
                   telegram_sent, flowvars, locals>>

(* load_hourly_data_to_clickhouse raises: in Client() or in the INSERT of  *)
(* record k + 1, the k rows already inserted staying in the table          *)
LoadHourlyFail(r) ==
    /\ pc[r] = "load_hourly"
    /\ hourly_data[r][1] # <<>>
    /\ \E k \in 0..(Len(hourly_data[r][1]) - 1) :
         weather_hourly' = weather_hourly \o SubSeq(hourly_data[r][1], 1, k)
    /\ trace' = Started(r, "load_hourly")
    /\ Raise(r, "load_hourly")
    /\ UNCHANGED <<now, bot_token, buckets, minio, put_count, weather_daily,
                   telegram_sent, flowvars, locals>>

(* load_daily_data_to_clickhouse returns (lines 207-211) *)
LoadDailyOk(r) ==
    /\ pc[r] = "load_daily"
    /\ weather_daily' = Append(weather_daily, daily_data[r][1])
    /\ trace' = Started(r, "load_daily")
    /\ Proceed(r, "notify")
    /\ UNCHANGED <<now, bot_token, buckets, minio, put_count, weather_hourly,
                   telegram_sent, flowvars, locals>>

(* load_daily_data_to_clickhouse raises *)
LoadDailyFail(r) ==
    /\ pc[r] = "load_daily"
    /\ trace' = Started(r, "load_daily")
    /\ Raise(r, "load_daily")
    /\ UNCHANGED <<now, bot_token, stores, flowvars, locals>>

(* What send_telegram_notifications did, kept in its locals: the number of *)
(* getUpdates requests, the resolved chat ids, the chat ids POSTed to in   *)
(* order, the counters, the tally printed at line 264 (None when that line *)
(* was not reached) and whether an exception left the function.            *)
Dispatch(get_updates, chat_ids, res, tally) ==
    [get_updates |-> get_updates, chat_ids |-> chat_ids, posted |-> res.posted,
     successful |-> res.successful, failed |-> res.failed, tally |-> tally,
     raised |-> res.raised]

NoSends ==
    [posted |-> <<>>, delivered |-> {}, successful |-> 0, failed |-> 0,
     raised |-> FALSE]

(* the early return of lines 220-222: no request is made *)
NoToken == Dispatch(0, <<>>, NoSends, None)

(* NoUsers with the tally line reached *)
NoUsersTally == Dispatch(1, <<>>, NoSends, Some(<<0, 0>>))

(* the early return of lines 226-228, after get_chat_ids made its request *)
NoUsers == Dispatch(1, <<>>, NoSends, None)

(* lines 230-264: the loop ran and the tally was printed *)
Sent(chat_ids, res) ==
    Dispatch(1, chat_ids, res,
             IF res.raised THEN None ELSE Some(<<res.successful, res.failed>>))

(* send_telegram_notifications (lines 218-264) *)
Notify(r) ==
    /\ pc[r] = "notify"
    /\ trace' = Started(r, "notify")
    /\ IF Falsy(bot_token)
       THEN /\ notif' = [notif EXCEPT ![r] = Some(NoToken)]
            /\ telegram_sent' = telegram_sent
            /\ Complete(r)
       ELSE \E response \in GetUpdatesResponses :
            \E chat_ids \in Orderings(get_chat_ids(response)) :
              IF chat_ids = <<>>
              THEN /\ notif' = [notif EXCEPT ![r] = Some(NoUsers)]
                   /\ telegram_sent' = telegram_sent
                   /\ Complete(r)
              ELSE \E outcomes \in [1..Len(chat_ids) -> SendOutcomes] :
                     LET res == SendAll(chat_ids, outcomes)
                     IN  /\ notif' = [notif EXCEPT ![r] = Some(Sent(chat_ids, res))]
                         /\ telegram_sent' = telegram_sent \cup
                              {<<c, Message(daily_data[r][1])>> : c \in res.delivered}
                         /\ IF res.raised
                            THEN Raise(r, "notify")
                            ELSE Complete(r)
    /\ UNCHANGED <<now, bot_token, buckets, minio, put_count, weather_hourly,
                   weather_daily, flowvars, attempts, raw_data, hourly_data,
                   daily_data, tomorrow_d>>

(* process_city returns True (line 289) and the flow counts the city       *)
(* (lines 306-307)                                                         *)
ReturnTrue(r) ==
    /\ pc[r] = "return"
    /\ NextCity(r, idx[r] + 1, success_count[r] + 1)
    /\ UNCHANGED <<now, bot_token, stores, run_date, outcome>>

(* Except with the error leaving process_city and ending the flow run *)
ExceptEscapes(r) ==
    /\ pc[r] = "except"
    /\ pc' = [pc EXCEPT ![r] = "crashed"]
    /\ UNCHANGED <<now, bot_token, stores, flowvars, outcome, trace, locals>>

(* Except with the failed city counted as a success *)
ExceptCounted(r) ==
    /\ pc[r] = "except"
    /\ NextCity(r, idx[r] + 1, success_count[r] + 1)
    /\ UNCHANGED <<now, bot_token, stores, run_date, outcome>>

(* the except of lines 291-293: process_city returns False and the flow    *)
(* goes on without counting the city                                       *)
Except(r) ==
    /\ pc[r] = "except"
    /\ NextCity(r, idx[r] + 1, success_count[r])
    /\ UNCHANGED <<now, bot_token, stores, run_date, outcome>>

-----------------------------------------------------------------------------
(* One flow run: every step of weather_etl_flow *)

RunStep(r) ==
    \/ StartRun(r)
    \/ FetchOk(r)
    \/ FetchFail(r)
    \/ SaveRawOk(r)
    \/ SaveRawFail(r)
    \/ TransformHourly(r)
    \/ TransformDaily(r)
    \/ LoadHourlyOk(r)
    \/ LoadHourlyFail(r)
    \/ LoadDailyOk(r)
    \/ LoadDailyFail(r)
    \/ Notify(r)
    \/ ReturnTrue(r)
    \/ Except(r)

Next == Tick \/ RunStep(1)

Spec == Init /\ [][Next]_vars

-----------------------------------------------------------------------------
(* Properties of one flow run (run 1 under Spec) *)

Steps == {StepOrder[i] : i \in 1..Len(StepOrder)}

StepNo(step) == CHOOSE i \in 1..Len(StepOrder) : StepOrder[i] = step

CityNo(c) == CHOOSE i \in 1..Len(CITIES) : CITIES[i] = c

IsPrefix(s, t) == Len(s) <= Len(t) /\ \A i \in 1..Len(s) : s[i] = t[i]

Failed(r, c) == outcome[r][c] \in Steps

InCity(r) == pc[r] \in Steps \cup {"return", "except"}

KeysOf(c) == {k \in DOMAIN minio : k[1] = c}

HourlyRowsOf(c) == {i \in 1..Len(weather_hourly) : weather_hourly[i].city = c}

DailyRowsOf(c) == {i \in 1..Len(weather_daily) : weather_daily[i].city = c}

SentFor(c) == {m \in telegram_sent : m[2].city = c}

(* C1: process_city is invoked exactly once for every configured city     *)
(* whatever fails in the others: a step's error takes the run to the       *)
(* except of process_city and from there to the next city, the run never   *)
(* ends anywhere but at the summary, and until then it can always go on.   *)
C1_FailureIsolation ==
    /\ pc[1] \in {"idle", "done"} \cup Steps \cup {"return", "except"}
    /\ \A c \in CityNames :
         calls[1][c] = (IF pc[1] # "idle" /\ CityNo(c) <= idx[1] THEN 1 ELSE 0)
    /\ pc[1] = "except" => Failed(1, City(1)) /\ ENABLED Except(1)
    /\ pc[1] # "done" => ENABLED RunStep(1)
    /\ pc[1] = "done" =>
         /\ summary[1] # None
         /\ \A c \in CityNames : calls[1][c] = 1 /\ outcome[1][c] # "none"

C1_Witness ==
    /\ pc[1] = "done"
    /\ outcome[1]["Moscow"] = "archive"
    /\ outcome[1]["Samara"] = "ok"
    /\ calls[1]["Samara"] = 1

(* C2: the steps of a city start in the order of StepOrder, each only      *)
(* after the one before it returned; a step that raises is the last one of *)
(* the city, which ends in the except branch, and nothing a later step     *)
(* would have written exists for that city.                                *)
C2_StepOrder ==
    /\ IsPrefix(trace[1], StepOrder)
    /\ pc[1] \in Steps =>
         \/ pc[1] = StepOrder[Len(trace[1]) + 1]
         \/ pc[1] = "fetch" /\ trace[1] = <<"fetch">> /\ raw_data[1] = None
    /\ pc[1] = "return" => trace[1] = StepOrder
    /\ pc[1] = "except" =>
         trace[1] # <<>> /\ outcome[1][City(1)] = trace[1][Len(trace[1])]
    /\ \A c \in CityNames : Failed(1, c) =>
         /\ \/ idx[1] = CityNo(c) /\ pc[1] = "except"
            \/ idx[1] > CityNo(c)
         /\ StepNo(outcome[1][c]) <= StepNo("archive") => KeysOf(c) = {}
         /\ StepNo(outcome[1][c]) < StepNo("load_hourly") => HourlyRowsOf(c) = {}
         /\ StepNo(outcome[1][c]) <= StepNo("load_daily") => DailyRowsOf(c) = {}
         /\ SentFor(c) = {}

C2_Witness ==
    /\ pc[1] = "except"
    /\ City(1) = "Samara"
    /\ outcome[1]["Samara"] = "fetch"
    /\ outcome[1]["Moscow"] = "ok"
    /\ KeysOf("Samara") = {}
    /\ KeysOf("Moscow") # {}

C4_SuccessCount ==
    LET completed == {c \in CityNames : outcome[1][c] = "ok"}
        returned  == {c \in completed : CityNo(c) < idx[1]}
    IN  /\ success_count[1] = Cardinality(returned)
        /\ success_count[1] >= 0 /\ success_count[1] <= Len(CITIES)
        /\ pc[1] = "done" =>
             /\ summary[1] = <<Cardinality(completed), Len(CITIES)>>
             /\ success_count[1] = Cardinality(completed)

C4_Witness ==
    /\ pc[1] = "done"
    /\ outcome[1]["Moscow"] = "ok"
    /\ outcome[1]["Samara"] = "load_daily"
    /\ summary[1] = <<1, 2>>

(* C5: with the token set and at least one chat id resolved, every chat id *)
(* is POSTed to exactly once, in order, whatever the earlier sends         *)
(* returned; successful + failed is the number of chat ids, the tally is   *)
(* printed, nothing is raised and the city's pipeline completes.           *)
C5_EverySubscriberOnce ==
    (notif[1] # None /\ notif[1][1].chat_ids # <<>>) =>
        LET d == notif[1][1]
        IN  /\ ~Falsy(bot_token)
            /\ d.posted = d.chat_ids
            /\ \A i, j \in 1..Len(d.posted) : d.posted[i] = d.posted[j] => i = j
            /\ d.successful + d.failed = Len(d.chat_ids)
            /\ d.tally = Some(<<d.successful, d.failed>>)
            /\ ~d.raised
            /\ pc[1] = "return"
            /\ outcome[1][City(1)] = "ok"
            /\ Cardinality(SentFor(City(1))) = d.successful

C5_Witness ==
    /\ notif[1] # None
    /\ Len(notif[1][1].chat_ids) = 2
    /\ notif[1][1].failed = 2
    /\ Len(notif[1][1].posted) = 2
    /\ pc[1] = "return"

(* C6: when the daily time series lacks the date string transform_daily    *)
(* looked up, the step raises and leaves no summary; the city then has no  *)
(* row in either table and no notification, and its archive object stays.  *)
C6_MissingTomorrowFails ==
    /\ (tomorrow_d[1] # None /\
        \A i \in 1..Len(raw_data[1][1].daily.time) :
            raw_data[1][1].daily.time[i] # tomorrow_d[1][1]) =>
         /\ daily_data[1] = None
         /\ pc[1] = "except"
         /\ outcome[1][City(1)] = "transform_daily"
    /\ \A c \in CityNames : outcome[1][c] = "transform_daily" =>
         /\ HourlyRowsOf(c) = {}
         /\ DailyRowsOf(c) = {}
         /\ SentFor(c) = {}
         /\ KeysOf(c) # {}

C6_Witness ==
    /\ pc[1] = "done"
    /\ outcome[1]["Moscow"] = "transform_daily"
    /\ KeysOf("Moscow") # {}
    /\ outcome[1]["Samara"] = "ok"

(* C8 as stated: every hourly record and the daily summary of a city run   *)
(* carry the date of the day after the run started                         *)
C8_DatesAreRunDatePlusOne ==
    /\ hourly_data[1] # None =>
         \A i \in 1..Len(hourly_data[1][1]) :
            hourly_data[1][1][i].date = run_date[1][1] + 1
    /\ daily_data[1] # None => daily_data[1][1].date = run_date[1][1] + 1

(* C10 as stated: with the token set and no chat id resolved the           *)
(* dispatcher returns without error, reports the tally (0, 0) and has made *)
(* no request                                                              *)
C10_ZeroTallyNoCalls ==
    (notif[1] # None /\ ~Falsy(bot_token) /\ notif[1][1].chat_ids = <<>>) =>
        /\ ~notif[1][1].raised
        /\ notif[1][1].tally = Some(<<0, 0>>)
        /\ notif[1][1].get_updates + Len(notif[1][1].posted) = 0

(* C10, amended: with the token set and no chat id resolved the dispatcher *)
(* returns without error after the one getUpdates request that resolves    *)
(* the chat ids; it sends no message and prints no tally.                  *)
C10_NoSendsNoTally ==
    (notif[1] # None /\ ~Falsy(bot_token) /\ notif[1][1].chat_ids = <<>>) =>
        /\ ~notif[1][1].raised
        /\ pc[1] = "return"
        /\ outcome[1][City(1)] = "ok"
        /\ notif[1][1].get_updates = 1
        /\ notif[1][1].posted = <<>>
        /\ notif[1][1].tally = None
        /\ SentFor(City(1)) = {}

C10_Witness ==
    /\ notif[1] # None
    /\ ~Falsy(bot_token)
    /\ notif[1][1].chat_ids = <<>>
    /\ pc[1] = "return"

-----------------------------------------------------------------------------
(* transform_hourly_data on any well-formed payload: the run is at the     *)
(* transform of its first city, whose payload has an hourly time series of *)
(* up to MaxLen entries in any order, with its parallel value arrays.      *)

IsoStamps(t) ==
    {IsoFormat(d, h) : d \in DateOf(t)..(DateOf(t) + 2), h \in 0..(HoursPerDay - 1)}

FreeSeries(t) == UNION {[1..n -> IsoStamps(t)] : n \in 0..MaxLen}

InitHourly ==
    /\ now \in StartClock..(StartClock + MaxTicks)
    /\ bot_token \in BotTokens
    /\ \E times \in FreeSeries(now) :
         LET data == FetchResult([hourly |-> HourlySeries(times),
                                  daily  |-> DailySeries(DateOf(now))],
                                 CITIES[1], now)
         IN  /\ raw_data = [r \in RunIds |-> IF r = 1 THEN Some(data) ELSE None]
             /\ minio = PutObject(<<>>, ObjectKey(CITIES[1], now), data)
    /\ buckets = {"weather-raw"}
    /\ put_count = 1
    /\ weather_hourly = <<>>
    /\ weather_daily = <<>>
    /\ telegram_sent = {}
    /\ pc = [r \in RunIds |-> IF r = 1 THEN "transform_hourly" ELSE "idle"]
    /\ idx = [r \in RunIds |-> IF r = 1 THEN 1 ELSE 0]
    /\ success_count = [r \in RunIds |-> 0]
    /\ summary = [r \in RunIds |-> None]
    /\ run_date = [r \in RunIds |-> IF r = 1 THEN Some(DateOf(now)) ELSE None]
    /\ calls = [r \in RunIds |-> [c \in CityNames |->
                  IF r = 1 /\ c = CITIES[1] THEN 1 ELSE 0]]
    /\ outcome = [r \in RunIds |-> [c \in CityNames |-> "none"]]
    /\ trace = [r \in RunIds |-> IF r = 1 THEN <<"fetch", "archive">> ELSE <<>>]
    /\ attempts = [r \in RunIds |-> IF r = 1 THEN 1 ELSE 0]
    /\ hourly_data = [r \in RunIds |-> None]
    /\ daily_data = [r \in RunIds |-> None]
    /\ tomorrow_d = [r \in RunIds |-> None]
    /\ notif = [r \in RunIds |-> None]

NextHourly == TransformHourly(1)

SpecHourly == InitHourly /\ [][NextHourly]_vars

(* C7: the output of transform_hourly_data is the subsequence of the       *)
(* hourly entries whose date is the day after the clock's date: as many    *)
(* records as there are such entries, the k-th record built from the k-th  *)
(* such entry with the city tag and the values at that entry's index; the  *)
(* step does not raise, also when the output is empty.                     *)
C7_HourlySubsequence ==
    hourly_data[1] # None =>
        LET data   == raw_data[1][1]
            time   == data.hourly.time
            out    == hourly_data[1][1]
            M      == {i \in 1..Len(time) :
                         <<time[i][1], time[i][2]>> = StrfDate(DateOf(now) + 1)}
            Kth(k) == CHOOSE i \in M : Cardinality({j \in M : j < i}) = k - 1
        IN  /\ Len(out) = Cardinality(M)
            /\ \A k \in 1..Len(out) :
                 /\ out[k].city = data.city
                 /\ out[k].date = DateOf(now) + 1
                 /\ out[k].hour = [date |-> DateOf(now) + 1, hour |-> time[Kth(k)][3]]
                 /\ out[k].temperature = data.hourly.temperature_2m[Kth(k)]
                 /\ out[k].precipitation = data.hourly.precipitation[Kth(k)]
                 /\ out[k].wind_speed = data.hourly.wind_speed_10m[Kth(k)]
                 /\ out[k].wind_direction = data.hourly.wind_direction_10m[Kth(k)]
            /\ pc[1] = "transform_daily"
            /\ outcome[1][City(1)] = "none"

C7_Witness ==
    /\ hourly_data[1] # None
    /\ Len(raw_data[1][1].hourly.time) = 3
    /\ Len(hourly_data[1][1]) = 2
    /\ hourly_data[1][1][1].temperature = 101
    /\ hourly_data[1][1][2].temperature = 103

-----------------------------------------------------------------------------
(* Overlapping flow runs: a run started while another is still going (the  *)
(* schedule of deploy.py fires every minute and a run whose fetch retries  *)
(* lasts longer; __main__ starts a run at any time).  Notifications are    *)
(* off and the stores accept every write.                                  *)

InitArchive ==
    /\ now = StartClock
    /\ bot_token = None
    /\ Fresh

NextArchive ==
    \/ Tick
    \/ \E r \in RunIds :
         \/ StartRun(r)
         \/ FetchOk(r)
         \/ SaveRawOk(r)
         \/ TransformHourly(r)
         \/ TransformDaily(r)
         \/ LoadHourlyOk(r)
         \/ LoadDailyOk(r)
         \/ Notify(r)
         \/ ReturnTrue(r)
         \/ Except(r)

SpecArchive == InitArchive /\ [][NextArchive]_vars

(* C9 as stated: every put_object that succeeds adds an object, so the     *)
(* bucket holds as many objects as there were successful writes and no     *)
(* archived payload was replaced                                           *)
C9_NoOverwrite == Cardinality(DOMAIN minio) = put_count

====
